---- MODULE Spec2Model ----
(***************************************************************************)
(* Model of the App component of pluto-translate.                          *)
(*                                                                         *)
(* The queue-based revision of the component is the text held in           *)
(* src/services/supabaseService.ts, lines 116-568; the earlier revision    *)
(* without a queue is src/App.tsx.  Line numbers below refer to            *)
(* src/services/supabaseService.ts unless a file is named.                 *)
(*                                                                         *)
(* The component runs on one event loop.  Every action below is one task   *)
(* of that loop: an event handler or the continuation of an async function *)
(* from one await to the next, together with the React render and effect   *)
(* that its state updates cause.                                           *)
(*                                                                         *)
(* React state read inside a handler is the value of the render that       *)
(* created the handler.  handleIncomingSegment is handed to the            *)
(* subscription by the effect of line 366, which runs again only when      *)
(* mode, classId or targetLanguage change; the isProcessingTTS it reads    *)
(* (through processTranslationAndSpeech, line 294) is the value of that    *)
(* render, kept in sub.busy.                                               *)
(***************************************************************************)
EXTENDS Integers, Sequences, FiniteSets, TLC

(* ------------------------------ bounds -------------------------------- *)
\* segments delivered to the receiver in one run
MaxDeliver == 3
\* synthesis calls that fail in one run
MaxReject == 2
\* largest value of the output context's clock
MaxClock == 1
\* longest decoded buffer
MaxDur == 1
\* startBroadcasting calls in one run
MaxSessions == 2
\* messages the streaming sessions hand to onmessage in one run
MaxMessages == 3
\* largest value of Date.now()
MaxWall == 1

(* ------------------------- program constants -------------------------- *)
\* waitTime / 1000, lines 343-344
WaitSeconds == 10
\* updated.slice(-50), line 285
WindowSize == 50

(* ------------------------------- text --------------------------------- *)
\* a text is a sequence of characters
Whitespace == {" "}

RECURSIVE TrimStart(_)
TrimStart(s) ==
    IF s # <<>> /\ Head(s) \in Whitespace THEN TrimStart(Tail(s)) ELSE s

RECURSIVE TrimEnd(_)
TrimEnd(s) ==
    IF s # <<>> /\ s[Len(s)] \in Whitespace
    THEN TrimEnd(SubSeq(s, 1, Len(s) - 1))
    ELSE s

\* a trim that strips nothing
TrimKeepsAll(s) == s

\* String.prototype.trim, line 288
Trim(s) == TrimEnd(TrimStart(s))

(* ----------------------------- segments ------------------------------- *)
\* id 'live-seg' (line 207) and id `final-${Date.now()}` (line 224)
LiveSegId == [tag |-> "live-seg", n |-> 0]
FinalId(t) == [tag |-> "final", n |-> t]

Segment(id, text, timestamp, isFinal, cls) ==
    [id |-> id, text |-> text, timestamp |-> timestamp, speaker |-> "user",
     isFinal |-> isFinal, classId |-> cls]

ClassIds == {"X", "Y"}
Languages == {"nl-BE", "en-US"}

VARIABLES
    mode,               \* useState('SOURCE'), line 125
    classId,            \* line 126
    targetLanguage,     \* line 129
    status,             \* line 127
    transcriptions,     \* line 128
    isProcessingTTS,    \* line 131, the latest committed value
    quotaWait,          \* line 133
    audioContextRef,    \* line 136: 0 for null, k for the context the k-th startBroadcasting made
    outputAudioContextRef, \* line 137: "null" or "open"
    nextStartTimeRef,   \* line 139
    sourcesRef,         \* line 140: the buffer sources in the set
    currentChunkRef,    \* line 141
    ttsQueueRef,        \* line 143
    sub,                \* the subscription of line 368 and what its handler captured
    inflight,           \* generateContent calls awaiting their response, line 309
    decoding,           \* units suspended at decodeAudioData, line 326
    timers,             \* the interval and timeout of lines 345-350
    clock,              \* ctx.currentTime of the output context
    sessions,           \* one entry per startBroadcasting call: how far it got, and its classId
    wall,               \* Date.now()
    published,          \* every broadcastTranscription call, in order
    \* history
    calls,              \* every generateContent call issued, in order
    submitted,          \* every text handed to processTranslationAndSpeech by line 289
    started,            \* every buffer source start()ed: uid, when, begin, dur
    nextUid,            \* units of work begun so far
    delivered,          \* segments delivered so far
    rejects,            \* failed calls so far
    dequeues,           \* entries checkQueue has taken off ttsQueueRef so far
    messages,           \* messages handled by onmessage so far
    lastInterrupted,    \* the last of them signalled an interruption
    turnDeltas,         \* the deltas received since the last turn-complete, in order
    expectedFinals      \* per turn-complete so far, the concatenation of its turn's deltas

vars == <<mode, classId, targetLanguage, status, transcriptions, isProcessingTTS,
          quotaWait, audioContextRef, outputAudioContextRef, nextStartTimeRef,
          sourcesRef, currentChunkRef, ttsQueueRef, sub, inflight, decoding,
          timers, clock, calls, submitted, started, nextUid, delivered, rejects,
          dequeues, sessions, wall, published, messages, lastInterrupted, turnDeltas,
          expectedFinals>>

\* what only the host's handlers write
hostOnly == <<currentChunkRef, sessions, wall, published, messages, lastInterrupted,
              turnDeltas, expectedFinals>>
hostVars == <<status, audioContextRef, hostOnly>>
recvVars == <<isProcessingTTS, quotaWait, outputAudioContextRef, nextStartTimeRef,
              sourcesRef, ttsQueueRef, inflight, decoding, timers, clock, calls,
              submitted, started, nextUid, delivered, rejects, dequeues>>
uiVars == <<mode, classId, targetLanguage>>
histVars == <<submitted, delivered, rejects>>

\* a max that always takes its second argument
MaxTakesSecond(a, b) == b

\* Math.max
Max(a, b) == IF a >= b THEN a ELSE b

NoSub == [on |-> FALSE, classId |-> "", busy |-> FALSE]

Init ==
    /\ mode = "SOURCE"
    /\ classId = "X"
    /\ targetLanguage = "nl-BE"
    /\ status = "IDLE"
    /\ transcriptions = <<>>
    /\ isProcessingTTS = FALSE
    /\ quotaWait = 0
    /\ audioContextRef = 0
    /\ outputAudioContextRef = "null"
    /\ nextStartTimeRef = 0
    /\ sourcesRef = {}
    /\ currentChunkRef = <<>>
    /\ ttsQueueRef = <<>>
    /\ sub = NoSub
    /\ inflight = {}
    /\ decoding = {}
    /\ timers = {}
    /\ clock = 0
    /\ calls = <<>>
    /\ submitted = <<>>
    /\ started = {}
    /\ nextUid = 0
    /\ delivered = 0
    /\ rejects = 0
    /\ dequeues = 0
    /\ sessions = <<>>
    /\ wall = 0
    /\ published = <<>>
    /\ messages = 0
    /\ lastInterrupted = FALSE
    /\ turnDeltas = <<>>
    /\ expectedFinals = <<>>

(* ------------------------ receiver: transcript ------------------------ *)
RECURSIVE SelectSegs(_, _, _)
\* prev.filter(s => s.id !== segment.id && (segment.isFinal || s.id !== 'live-seg')), line 283
SelectSegs(prev, id, isFinal) ==
    IF prev = <<>> THEN <<>>
    ELSE LET s == Head(prev)
             rest == SelectSegs(Tail(prev), id, isFinal)
         IN IF s.id # id /\ (isFinal \/ s.id # LiveSegId) THEN <<s>> \o rest ELSE rest

\* Array.prototype.slice(-n)
SliceLast(s, n) == IF Len(s) <= n THEN s ELSE SubSeq(s, Len(s) - n + 1, Len(s))

\* the updater of setTranscriptions in handleIncomingSegment, lines 282-286
IncomingUpdate(prev, segment) ==
    SliceLast(Append(SelectSegs(prev, segment.id, segment.isFinal), segment), WindowSize)

(* ------------------------- receiver: pipeline ------------------------- *)
\* The part of the state processTranslationAndSpeech and checkQueue act on
\* before their first await.
Pipe ==
    [ttsQueueRef |-> ttsQueueRef, inflight |-> inflight, calls |-> calls,
     nextUid |-> nextUid, isProcessingTTS |-> isProcessingTTS,
     outputAudioContextRef |-> outputAudioContextRef, dequeues |-> dequeues]

SetPipe(P) ==
    /\ ttsQueueRef' = P.ttsQueueRef
    /\ inflight' = P.inflight
    /\ calls' = P.calls
    /\ nextUid' = P.nextUid
    /\ isProcessingTTS' = P.isProcessingTTS
    /\ outputAudioContextRef' = P.outputAudioContextRef
    /\ dequeues' = P.dequeues

Unit(uid, text, retry, busy) == [uid |-> uid, text |-> text, retry |-> retry, busy |-> busy]

\* processTranslationAndSpeech up to its first await, lines 293-309.  busy is the
\* isProcessingTTS of the render whose closure is running; uid names the unit of
\* work (kept across its retries).
processTranslationAndSpeech(P, originalText, retryCount, busy, uid) ==
    IF busy /\ retryCount = 0
    THEN [P EXCEPT !.ttsQueueRef = Append(@, originalText)]
    ELSE [P EXCEPT !.isProcessingTTS = TRUE,
                   !.outputAudioContextRef = "open",
                   !.inflight = @ \cup {Unit(uid, originalText, retryCount, busy)},
                   !.calls = Append(@, Unit(uid, originalText, retryCount, busy)),
                   !.nextUid = Max(@, uid)]

\* checkQueue reading the oldest entry without taking it off the queue
checkQueueKeepsEntry(P, busy) ==
    IF Len(P.ttsQueueRef) > 0
    THEN processTranslationAndSpeech(P, Head(P.ttsQueueRef), 0, busy, P.nextUid + 1)
    ELSE P

\* checkQueue, lines 359-364, called from a closure whose isProcessingTTS is busy
checkQueue(P, busy) ==
    IF Len(P.ttsQueueRef) > 0
    THEN LET next == Head(P.ttsQueueRef)
             Q == [P EXCEPT !.ttsQueueRef = Tail(@), !.dequeues = @ + 1]
         IN IF next # <<>>
            THEN processTranslationAndSpeech(Q, next, 0, busy, P.nextUid + 1)
            ELSE Q
    ELSE P

\* finally { setIsProcessingTTS(false) }, lines 354-356
Finally(P) == [P EXCEPT !.isProcessingTTS = FALSE]

\* the segments a subscription to channel cls can be handed
IncomingSegments(cls) ==
    { Segment(LiveSegId, <<"a">>, 0, FALSE, cls),
      Segment(FinalId(1), <<"a">>, 1, TRUE, cls),
      Segment(FinalId(2), <<"b">>, 2, TRUE, cls),
      Segment(FinalId(3), <<" ">>, 3, TRUE, cls) }

\* handleIncomingSegment, lines 281-291, run by the subscription callback of line 31
handleIncomingSegment(segment) ==
    /\ sub.on
    /\ delivered' = delivered + 1
    /\ transcriptions' = IncomingUpdate(transcriptions, segment)
    /\ IF segment.isFinal /\ Trim(segment.text) # <<>>
       THEN /\ SetPipe(processTranslationAndSpeech(Pipe, segment.text, 0, sub.busy,
                                                   nextUid + 1))
            /\ submitted' = Append(submitted, segment.text)
       ELSE /\ SetPipe(Pipe)
            /\ UNCHANGED submitted
    /\ UNCHANGED <<uiVars, hostVars, quotaWait, nextStartTimeRef, sourcesRef, sub,
                   decoding, timers, clock, started, rejects>>

\* the channel hands the callback of lines 31-33 a segment
Deliver(segment) ==
    /\ delivered < MaxDeliver
    /\ handleIncomingSegment(segment)

\* the response of generateContent carries audio data: lines 322-326, up to the
\* await of decodeAudioData.  dur is the duration of the buffer the data decodes to.
SynthAudio(u, dur) ==
    /\ u \in inflight
    /\ inflight' = inflight \ {u}
    /\ nextStartTimeRef' = Max(nextStartTimeRef, clock)
    /\ decoding' = decoding \cup {[uid |-> u.uid, busy |-> u.busy, dur |-> dur]}
    /\ UNCHANGED <<uiVars, hostVars, histVars, transcriptions, isProcessingTTS,
                   quotaWait, outputAudioContextRef, sourcesRef, ttsQueueRef, sub,
                   timers, clock, calls, started, nextUid, dequeues>>

\* the response carries no audio data: lines 322, 337-339 and the finally
SynthNoAudio(u) ==
    /\ u \in inflight
    /\ SetPipe(Finally(checkQueue([Pipe EXCEPT !.inflight = @ \ {u}], u.busy)))
    /\ UNCHANGED <<uiVars, hostVars, histVars, transcriptions, quotaWait,
                   nextStartTimeRef, sourcesRef, sub, decoding, timers, clock, started>>

\* err?.message?.includes('429') || err?.status === 'RESOURCE_EXHAUSTED', line 342
IsQuotaError(err) == err.has429 \/ err.status = "RESOURCE_EXHAUSTED"

Errors ==
    { [has429 |-> TRUE, status |-> "OTHER"],
      [has429 |-> FALSE, status |-> "RESOURCE_EXHAUSTED"],
      [has429 |-> FALSE, status |-> "OTHER"] }

\* generateContent rejects: the catch of lines 340-353 and the finally
SynthReject(u, err) ==
    /\ u \in inflight
    /\ rejects < MaxReject
    /\ rejects' = rejects + 1
    /\ IF IsQuotaError(err)
       THEN /\ quotaWait' = WaitSeconds
            /\ timers' = timers \cup {u}
            /\ SetPipe(Finally([Pipe EXCEPT !.inflight = @ \ {u}]))
       ELSE /\ SetPipe(Finally(checkQueue([Pipe EXCEPT !.inflight = @ \ {u}], u.busy)))
            /\ UNCHANGED <<quotaWait, timers>>
    /\ UNCHANGED <<uiVars, hostVars, transcriptions, nextStartTimeRef, sourcesRef, sub,
                   decoding, clock, started, submitted, delivered>>

\* decodeAudioData resolving with line 336, sourcesRef.current.add, left out
DecodeDoneForgetsSource(d) ==
    /\ d \in decoding
    /\ decoding' = decoding \ {d}
    /\ started' = started \cup {[uid |-> d.uid, busy |-> d.busy,
                                  when |-> nextStartTimeRef,
                                  begin |-> Max(nextStartTimeRef, clock),
                                  dur |-> d.dur]}
    /\ nextStartTimeRef' = nextStartTimeRef + d.dur
    /\ isProcessingTTS' = FALSE
    /\ UNCHANGED <<uiVars, hostVars, histVars, transcriptions, quotaWait,
                   outputAudioContextRef, ttsQueueRef, sub, inflight, timers, clock,
                   calls, nextUid, dequeues, sourcesRef>>

\* decodeAudioData resolves: lines 327-336 and the finally.  start(when) begins
\* playing at when, or at once if when is already past.
DecodeDone(d) ==
    /\ d \in decoding
    /\ decoding' = decoding \ {d}
    /\ LET src == [uid |-> d.uid, busy |-> d.busy, when |-> nextStartTimeRef,
                   begin |-> Max(nextStartTimeRef, clock), dur |-> d.dur]
       IN /\ started' = started \cup {src}
          /\ sourcesRef' = sourcesRef \cup {src}
    /\ nextStartTimeRef' = nextStartTimeRef + d.dur
    /\ isProcessingTTS' = FALSE
    /\ UNCHANGED <<uiVars, hostVars, histVars, transcriptions, quotaWait,
                   outputAudioContextRef, ttsQueueRef, sub, inflight, timers, clock,
                   calls, nextUid, dequeues>>

\* the moment a source's playback is over
EndTime(s) == s.begin + s.dur

\* the 'ended' listener of a source, lines 330-333; it runs once the output clock
\* has reached the end of the source's playback, the earliest-ending source first
Ended(s) ==
    /\ s \in sourcesRef
    /\ \A o \in sourcesRef : EndTime(s) <= EndTime(o)
    /\ clock' = Max(clock, EndTime(s))
    /\ sourcesRef' = sourcesRef \ {s}
    /\ SetPipe(checkQueue(Pipe, s.busy))
    /\ UNCHANGED <<uiVars, hostVars, histVars, transcriptions, quotaWait,
                   nextStartTimeRef, sub, decoding, timers, started>>

\* one firing of the interval of line 345, while its timeout is pending
Tick(t) ==
    /\ t \in timers
    /\ quotaWait' = Max(0, quotaWait - 1)
    /\ UNCHANGED <<uiVars, hostVars, histVars, transcriptions, isProcessingTTS,
                   outputAudioContextRef, nextStartTimeRef, sourcesRef, ttsQueueRef,
                   sub, inflight, decoding, timers, clock, calls, started, nextUid,
                   dequeues>>

\* the timeout of lines 346-350.  The model keeps no wall clock: the timeout may
\* follow any number of firings of the interval (a throttled event loop runs
\* fewer than waitTime / 1000 of them, a late timeout lets one more run).
Timeout(t) ==
    /\ t \in timers
    /\ timers' = timers \ {t}
    /\ quotaWait' = 0
    /\ SetPipe(processTranslationAndSpeech(Pipe, t.text, t.retry + 1, t.busy, t.uid))
    /\ UNCHANGED <<uiVars, hostVars, histVars, transcriptions, nextStartTimeRef,
                   sourcesRef, sub, decoding, clock, started>>

\* the output context's clock moves on
AdvanceClock ==
    /\ outputAudioContextRef = "open"
    /\ clock < MaxClock
    /\ clock' = clock + 1
    /\ UNCHANGED <<uiVars, hostVars, histVars, transcriptions, isProcessingTTS,
                   quotaWait, outputAudioContextRef, nextStartTimeRef, sourcesRef,
                   ttsQueueRef, sub, inflight, decoding, timers, calls, started,
                   nextUid, dequeues>>

(* ------------------------------ the user ------------------------------ *)
\* subscribeToTranscription(classId, handleIncomingSegment), line 368, in a render
\* whose isProcessingTTS is busy
Subscribe(cls, busy) == [on |-> TRUE, classId |-> cls, busy |-> busy]

\* the role buttons, lines 452 and 458: setMode(m); stopBroadcasting(); then the
\* effect of lines 366-373 if mode changed
SetMode(m) ==
    /\ mode' = m
    /\ audioContextRef' = 0
    /\ status' = "IDLE"
    /\ transcriptions' = <<>>
    /\ sub' = IF m = mode THEN sub
              ELSE IF m = "RECEIVER" THEN Subscribe(classId, isProcessingTTS)
              ELSE NoSub
    /\ UNCHANGED <<classId, targetLanguage, hostOnly, recvVars>>

\* handleClassIdChange, lines 162-165 (the input is disabled while CONNECTED, line
\* 415), then the effect of lines 366-373
ClassIdChange(c) ==
    /\ status # "CONNECTED"
    /\ c # classId
    /\ classId' = c
    /\ IF mode = "RECEIVER"
       THEN /\ sub' = Subscribe(c, isProcessingTTS)
            /\ UNCHANGED transcriptions
       ELSE /\ transcriptions' = <<>>
            /\ UNCHANGED sub
    /\ UNCHANGED <<mode, targetLanguage, hostVars, recvVars>>

\* the language select, lines 432-444 (shown to a participant only), set to another
\* language l, then the effect of lines 366-373
SetTargetLanguage(l) ==
    /\ mode = "RECEIVER"
    /\ l # targetLanguage
    /\ targetLanguage' = l
    /\ sub' = Subscribe(classId, isProcessingTTS)
    /\ UNCHANGED <<mode, classId, hostVars, transcriptions, recvVars>>

Receive ==
    \/ \E seg \in IncomingSegments(sub.classId) : Deliver(seg)
    \/ \E u \in inflight, dur \in 1..MaxDur : SynthAudio(u, dur)
    \/ \E u \in inflight : SynthNoAudio(u)
    \/ \E d \in decoding : DecodeDone(d)
    \/ \E s \in sourcesRef : Ended(s)
    \/ \E m \in {"SOURCE", "RECEIVER"} : SetMode(m)
    \/ \E l \in Languages : SetTargetLanguage(l)

\* the receiver's pipeline with failing calls and their backoff
Next ==
    \/ Receive
    \/ \E u \in inflight, err \in Errors : SynthReject(u, err)
    \/ \E t \in timers : Tick(t)
    \/ \E t \in timers : Timeout(t)

Spec == Init /\ [][Next]_vars

\* the receiver's pipeline against the output clock, every call succeeding
NextPlay ==
    \/ Receive
    \/ AdvanceClock

SpecPlay == Init /\ [][NextPlay]_vars

(* -------------------------------- host -------------------------------- *)
\* the filter of lines 216 and 235 letting every entry through
WithoutLiveKeepsAll(prev) == prev

\* prev.filter(p => p.id !== 'live-seg'), lines 216 and 235
WithoutLive(prev) == SelectSeq(prev, LAMBDA p : p.id # LiveSegId)

\* what onmessage reads and writes
HostState ==
    [currentChunkRef |-> currentChunkRef, transcriptions |-> transcriptions,
     published |-> published]

\* the inputTranscription branch with currentChunkRef.current = text in place of +=
onInputTranscriptionAssigns(H, text, cls, now) ==
    LET segment == Segment(LiveSegId, text, now, FALSE, cls)
    IN [currentChunkRef |-> text,
        transcriptions |-> Append(WithoutLive(H.transcriptions), segment),
        published |-> Append(H.published, segment)]

\* if (message.serverContent?.inputTranscription) { ... }, lines 202-221
onInputTranscription(H, text, cls, now) ==
    LET chunk == H.currentChunkRef \o text
        segment == Segment(LiveSegId, chunk, now, FALSE, cls)
    IN [currentChunkRef |-> chunk,
        transcriptions |-> Append(WithoutLive(H.transcriptions), segment),
        published |-> Append(H.published, segment)]

\* the turnComplete branch without the call of line 239
onTurnCompleteUnpublished(H, cls, now) ==
    LET finalSegment == Segment(FinalId(now), H.currentChunkRef, now, TRUE, cls)
    IN [currentChunkRef |-> <<>>,
        transcriptions |-> Append(WithoutLive(H.transcriptions), finalSegment),
        published |-> H.published]

\* if (message.serverContent?.turnComplete) { ... }, lines 223-241
onTurnComplete(H, cls, now) ==
    LET finalSegment == Segment(FinalId(now), H.currentChunkRef, now, TRUE, cls)
    IN [currentChunkRef |-> <<>>,
        transcriptions |-> Append(WithoutLive(H.transcriptions), finalSegment),
        published |-> Append(H.published, finalSegment)]

\* the onmessage callback, lines 201-242, of a session whose closure holds classId cls
onmessage(H, message, cls, now) ==
    LET H1 == IF message.hasText THEN onInputTranscription(H, message.text, cls, now)
              ELSE H
    IN IF message.turnComplete THEN onTurnComplete(H1, cls, now) ELSE H1

Deltas == {<<"a">>, <<"b">>}

Message(hasText, text, turnComplete, interrupted) ==
    [hasText |-> hasText, text |-> text, turnComplete |-> turnComplete,
     interrupted |-> interrupted]

\* serverContent of a LiveServerMessage: a transcription delta, a turn-complete
\* flag or both, or an interruption
TextMessages ==
    {Message(TRUE, d, tc, FALSE) : d \in Deltas, tc \in BOOLEAN}
        \cup {Message(FALSE, <<>>, TRUE, FALSE)}
InterruptMessages == {Message(FALSE, <<>>, FALSE, TRUE)}
Messages == TextMessages \cup InterruptMessages

Session(stage, cls) == [stage |-> stage, classId |-> cls]

\* startBroadcasting up to its first await, lines 167-173; the button of line 535
\* is shown to the host while status is not CONNECTED and is disabled while CONNECTING
StartBroadcasting ==
    /\ mode = "SOURCE"
    /\ status \notin {"CONNECTED", "CONNECTING"}
    /\ Len(sessions) < MaxSessions
    /\ status' = "CONNECTING"
    /\ audioContextRef' = Len(sessions) + 1
    /\ sessions' = Append(sessions, Session("mic", classId))
    /\ UNCHANGED <<uiVars, transcriptions, sub, recvVars, currentChunkRef, wall,
                   published, messages, lastInterrupted, turnDeltas, expectedFinals>>

\* getUserMedia resolves: lines 174-264, up to the await of the session promise.
\* audioContextRef.current.createMediaStreamSource throws if the ref is null by
\* now, which the catch of line 265 turns into status ERROR.
MicGranted(i) ==
    /\ i \in DOMAIN sessions
    /\ sessions[i].stage = "mic"
    /\ IF audioContextRef = 0
       THEN /\ status' = "ERROR"
            /\ sessions' = [sessions EXCEPT ![i].stage = "failed"]
       ELSE /\ sessions' = [sessions EXCEPT ![i].stage = "connecting"]
            /\ UNCHANGED status
    /\ UNCHANGED <<uiVars, transcriptions, sub, recvVars, audioContextRef,
                   currentChunkRef, wall, published, messages, lastInterrupted,
                   turnDeltas, expectedFinals>>

\* getUserMedia rejects: the catch of lines 265-268
MicDenied(i) ==
    /\ i \in DOMAIN sessions
    /\ sessions[i].stage = "mic"
    /\ status' = "ERROR"
    /\ sessions' = [sessions EXCEPT ![i].stage = "failed"]
    /\ UNCHANGED <<uiVars, transcriptions, sub, recvVars, audioContextRef,
                   currentChunkRef, wall, published, messages, lastInterrupted,
                   turnDeltas, expectedFinals>>

\* the onopen callback, lines 184-200
OnOpen(i) ==
    /\ i \in DOMAIN sessions
    /\ sessions[i].stage = "connecting"
    /\ status' = "CONNECTED"
    /\ sessions' = [sessions EXCEPT ![i].stage = "open"]
    /\ UNCHANGED <<uiVars, transcriptions, sub, recvVars, audioContextRef,
                   currentChunkRef, wall, published, messages, lastInterrupted,
                   turnDeltas, expectedFinals>>

\* the session promise rejects: the catch of lines 265-268
ConnectRejected(i) ==
    /\ i \in DOMAIN sessions
    /\ sessions[i].stage = "connecting"
    /\ status' = "ERROR"
    /\ sessions' = [sessions EXCEPT ![i].stage = "failed"]
    /\ UNCHANGED <<uiVars, transcriptions, sub, recvVars, audioContextRef,
                   currentChunkRef, wall, published, messages, lastInterrupted,
                   turnDeltas, expectedFinals>>

\* the onmessage callback of session i is handed message
OnMessage(i, message) ==
    /\ i \in DOMAIN sessions
    /\ sessions[i].stage = "open"
    /\ messages < MaxMessages
    /\ messages' = messages + 1
    /\ lastInterrupted' = message.interrupted
    /\ LET H == onmessage(HostState, message, sessions[i].classId, wall)
       IN /\ currentChunkRef' = H.currentChunkRef
          /\ transcriptions' = H.transcriptions
          /\ published' = H.published
    /\ LET turn == IF message.hasText THEN turnDeltas \o message.text ELSE turnDeltas
       IN IF message.turnComplete
          THEN /\ expectedFinals' = Append(expectedFinals, turn)
               /\ turnDeltas' = <<>>
          ELSE /\ turnDeltas' = turn
               /\ UNCHANGED expectedFinals
    /\ UNCHANGED <<uiVars, status, audioContextRef, sub, recvVars, sessions, wall>>

\* the onerror callback, lines 243-246
OnError(i) ==
    /\ i \in DOMAIN sessions
    /\ sessions[i].stage \in {"connecting", "open"}
    /\ status' = "ERROR"
    /\ UNCHANGED <<uiVars, transcriptions, sub, recvVars, audioContextRef, hostOnly>>

\* the onclose callback, lines 247-250
OnClose(i) ==
    /\ i \in DOMAIN sessions
    /\ sessions[i].stage \in {"connecting", "open"}
    /\ status' = "IDLE"
    /\ sessions' = [sessions EXCEPT ![i].stage = "closed"]
    /\ UNCHANGED <<uiVars, transcriptions, sub, recvVars, audioContextRef,
                   currentChunkRef, wall, published, messages, lastInterrupted,
                   turnDeltas, expectedFinals>>

\* stopBroadcasting, lines 271-279, from the button of line 530 (shown to the host
\* while status is CONNECTED)
StopBroadcasting ==
    /\ mode = "SOURCE"
    /\ status = "CONNECTED"
    /\ audioContextRef' = 0
    /\ status' = "IDLE"
    /\ transcriptions' = <<>>
    /\ UNCHANGED <<uiVars, sub, recvVars, hostOnly>>

\* Date.now() moves on
AdvanceWall ==
    /\ wall < MaxWall
    /\ wall' = wall + 1
    /\ UNCHANGED <<uiVars, status, transcriptions, audioContextRef, sub, recvVars,
                   currentChunkRef, sessions, published, messages, lastInterrupted,
                   turnDeltas, expectedFinals>>

\* the host: sessions with the streaming service and what the user does
NextHost ==
    \/ StartBroadcasting
    \/ \E i \in DOMAIN sessions : MicGranted(i)
    \/ \E i \in DOMAIN sessions : MicDenied(i)
    \/ \E i \in DOMAIN sessions : OnOpen(i)
    \/ \E i \in DOMAIN sessions : ConnectRejected(i)
    \/ \E i \in DOMAIN sessions, message \in Messages : OnMessage(i, message)
    \/ \E i \in DOMAIN sessions : OnError(i)
    \/ \E i \in DOMAIN sessions : OnClose(i)
    \/ StopBroadcasting
    \/ \E m \in {"SOURCE", "RECEIVER"} : SetMode(m)

SpecHost == Init /\ [][NextHost]_vars

\* the host against the millisecond clock
NextHostWall ==
    \/ NextHost
    \/ AdvanceWall

SpecHostWall == Init /\ [][NextHostWall]_vars

\* The state after Launch Session, a granted microphone, onopen and a click on
\* Participant Role: stopBroadcasting closes the input context and leaves the
\* streaming session open, so its callbacks go on running beside the receiver.
LeftOpen ==
    /\ mode = "RECEIVER"
    /\ sub = Subscribe("X", FALSE)
    /\ sessions = <<Session("open", "X")>>
    /\ status = "IDLE"
    /\ audioContextRef = 0
    /\ transcriptions = <<>>

InitLeftOpen ==
    /\ LeftOpen
    /\ classId = "X"
    /\ targetLanguage = "nl-BE"
    /\ isProcessingTTS = FALSE
    /\ quotaWait = 0
    /\ outputAudioContextRef = "null"
    /\ nextStartTimeRef = 0
    /\ sourcesRef = {}
    /\ currentChunkRef = <<>>
    /\ ttsQueueRef = <<>>
    /\ inflight = {}
    /\ decoding = {}
    /\ timers = {}
    /\ clock = 0
    /\ calls = <<>>
    /\ submitted = <<>>
    /\ started = {}
    /\ nextUid = 0
    /\ delivered = 0
    /\ rejects = 0
    /\ dequeues = 0
    /\ wall = 0
    /\ published = <<>>
    /\ messages = 0
    /\ lastInterrupted = FALSE
    /\ turnDeltas = <<>>
    /\ expectedFinals = <<>>

\* the receiver beside a streaming session that signals interruptions
NextInterrupt ==
    \/ Receive
    \/ \E i \in DOMAIN sessions, message \in InterruptMessages : OnMessage(i, message)

SpecInterrupt == InitLeftOpen /\ [][NextInterrupt]_vars

\* the receiver beside a streaming session left open: onmessage and
\* handleIncomingSegment both write the component's one transcript sequence
NextBoth ==
    \/ \E seg \in IncomingSegments(sub.classId) : Deliver(seg)
    \/ \E i \in DOMAIN sessions, message \in TextMessages : OnMessage(i, message)
    \/ \E m \in {"SOURCE", "RECEIVER"} : SetMode(m)

SpecBoth == InitLeftOpen /\ [][NextBoth]_vars

\* the receiver of a listener who also edits the session id
NextClass ==
    \/ Receive
    \/ \E c \in ClassIds : ClassIdChange(c)

SpecClass == Init /\ [][NextClass]_vars

\* a transcript of n final segments with blank text (none of them was handed to
\* the pipeline, line 288), the oldest first
BlankFinals(n, cls) == [i \in 1..n |-> Segment(FinalId(100 + i), <<" ">>, 100 + i, TRUE, cls)]

\* LeftOpen after the channel has delivered blank final segments up to the
\* window of line 285, or one short of it
InitWindow ==
    /\ mode = "RECEIVER"
    /\ sub = Subscribe("X", FALSE)
    /\ sessions = <<Session("open", "X")>>
    /\ status = "IDLE"
    /\ audioContextRef = 0
    /\ \E n \in {WindowSize - 1, WindowSize} : transcriptions = BlankFinals(n, "X")
    /\ classId = "X"
    /\ targetLanguage = "nl-BE"
    /\ isProcessingTTS = FALSE
    /\ quotaWait = 0
    /\ outputAudioContextRef = "null"
    /\ nextStartTimeRef = 0
    /\ sourcesRef = {}
    /\ currentChunkRef = <<>>
    /\ ttsQueueRef = <<>>
    /\ inflight = {}
    /\ decoding = {}
    /\ timers = {}
    /\ clock = 0
    /\ calls = <<>>
    /\ submitted = <<>>
    /\ started = {}
    /\ nextUid = 0
    /\ delivered = 0
    /\ rejects = 0
    /\ dequeues = 0
    /\ wall = 0
    /\ published = <<>>
    /\ messages = 0
    /\ lastInterrupted = FALSE
    /\ turnDeltas = <<>>
    /\ expectedFinals = <<>>

\* the receiver with a full transcript beside a streaming session left open
NextWindow ==
    \/ \E seg \in IncomingSegments(sub.classId) : Deliver(seg)
    \/ \E i \in DOMAIN sessions, message \in TextMessages : OnMessage(i, message)

SpecWindow == InitWindow /\ [][NextWindow]_vars

(* ----------------------------- end to end ----------------------------- *)
\* A host in one browser and a receiver in another, on the same session id.  Of
\* the host the model keeps currentChunkRef and what it has published; every
\* other variable, the transcript sequence included, is the receiver's.

\* the state of a component on which Participant Role has been clicked
InitReceiver ==
    /\ mode = "RECEIVER"
    /\ sub = Subscribe("X", FALSE)
    /\ sessions = <<>>
    /\ status = "IDLE"
    /\ audioContextRef = 0
    /\ transcriptions = <<>>
    /\ classId = "X"
    /\ targetLanguage = "nl-BE"
    /\ isProcessingTTS = FALSE
    /\ quotaWait = 0
    /\ outputAudioContextRef = "null"
    /\ nextStartTimeRef = 0
    /\ sourcesRef = {}
    /\ currentChunkRef = <<>>
    /\ ttsQueueRef = <<>>
    /\ inflight = {}
    /\ decoding = {}
    /\ timers = {}
    /\ clock = 0
    /\ calls = <<>>
    /\ submitted = <<>>
    /\ started = {}
    /\ nextUid = 0
    /\ delivered = 0
    /\ rejects = 0
    /\ dequeues = 0
    /\ wall = 0
    /\ published = <<>>
    /\ messages = 0
    /\ lastInterrupted = FALSE
    /\ turnDeltas = <<>>
    /\ expectedFinals = <<>>

\* the host's onmessage, lines 201-242, handles message while the receiver is
\* subscribed: what it broadcasts (lines 220 and 239) is appended to published
HostOnMessage(message) ==
    /\ sub.on
    /\ messages < MaxMessages
    /\ messages' = messages + 1
    /\ lastInterrupted' = message.interrupted
    /\ LET H == onmessage([HostState EXCEPT !.transcriptions = <<>>], message,
                          sub.classId, wall)
       IN /\ currentChunkRef' = H.currentChunkRef
          /\ published' = H.published
    /\ LET turn == IF message.hasText THEN turnDeltas \o message.text ELSE turnDeltas
       IN IF message.turnComplete
          THEN /\ expectedFinals' = Append(expectedFinals, turn)
               /\ turnDeltas' = <<>>
          ELSE /\ turnDeltas' = turn
               /\ UNCHANGED expectedFinals
    /\ UNCHANGED <<uiVars, status, audioContextRef, transcriptions, sub, recvVars,
                   sessions, wall>>

\* the channel hands the receiver's callback (line 31) the next published
\* segment: each segment once, in the order of publication
Relay ==
    /\ delivered < Len(published)
    /\ handleIncomingSegment(published[delivered + 1])

NextRelay ==
    \/ \E message \in TextMessages : HostOnMessage(message)
    \/ Relay
    \/ \E u \in inflight, dur \in 1..MaxDur : SynthAudio(u, dur)
    \/ \E u \in inflight : SynthNoAudio(u)
    \/ \E d \in decoding : DecodeDone(d)
    \/ \E s \in sourcesRef : Ended(s)
    \/ \E l \in Languages : SetTargetLanguage(l)
    \/ AdvanceWall

SpecRelay == InitReceiver /\ [][NextRelay]_vars

(* ------------------- the receiver of src/App.tsx ---------------------- *)
\* The earlier revision of the component: no PendingQueue, no retry, a translate
\* call and then a synthesis call per text.  Lines are those of src/App.tsx.

\* a unit of work of processTranslationAndSpeech and the call it is waiting for:
\* "translate" (line 182) or "tts" (line 192)
PlainUnit(uid, text, stage) == [uid |-> uid, text |-> text, stage |-> stage]

\* handleIncomingSegment, lines 163-173, with processTranslationAndSpeech up to
\* its first await, lines 175-182
PlainDeliver(segment) ==
    /\ sub.on
    /\ delivered < MaxDeliver
    /\ delivered' = delivered + 1
    /\ transcriptions' = IncomingUpdate(transcriptions, segment)
    /\ IF segment.isFinal /\ Trim(segment.text) # <<>>
       THEN LET u == PlainUnit(nextUid + 1, segment.text, "translate")
            IN /\ isProcessingTTS' = TRUE
               /\ inflight' = inflight \cup {u}
               /\ calls' = Append(calls, u)
               /\ nextUid' = nextUid + 1
               /\ submitted' = Append(submitted, segment.text)
       ELSE UNCHANGED <<isProcessingTTS, inflight, calls, nextUid, submitted>>
    /\ UNCHANGED <<uiVars, hostVars, quotaWait, outputAudioContextRef,
                   nextStartTimeRef, sourcesRef, ttsQueueRef, sub, decoding, timers,
                   clock, started, rejects, dequeues>>

\* the translate call resolves: lines 186-192, up to the await of the synthesis call
PlainTranslated(u) ==
    /\ u \in inflight
    /\ u.stage = "translate"
    /\ outputAudioContextRef' = "open"
    /\ LET v == PlainUnit(u.uid, u.text, "tts")
       IN /\ inflight' = (inflight \ {u}) \cup {v}
          /\ calls' = Append(calls, v)
    /\ UNCHANGED <<uiVars, hostVars, histVars, transcriptions, isProcessingTTS,
                   quotaWait, nextStartTimeRef, sourcesRef, ttsQueueRef, sub,
                   decoding, timers, clock, started, nextUid, dequeues>>

\* the synthesis call resolves with audio data: lines 205-209, up to the await of
\* decodeAudioData
PlainSynthAudio(u, dur) ==
    /\ u \in inflight
    /\ u.stage = "tts"
    /\ inflight' = inflight \ {u}
    /\ nextStartTimeRef' = Max(nextStartTimeRef, clock)
    /\ decoding' = decoding \cup {[uid |-> u.uid, busy |-> FALSE, dur |-> dur]}
    /\ UNCHANGED <<uiVars, hostVars, histVars, transcriptions, isProcessingTTS,
                   quotaWait, outputAudioContextRef, sourcesRef, ttsQueueRef, sub,
                   timers, clock, calls, started, nextUid, dequeues>>

\* the synthesis call resolves without audio data: lines 205-206 and the finally
PlainSynthNoAudio(u) ==
    /\ u \in inflight
    /\ u.stage = "tts"
    /\ inflight' = inflight \ {u}
    /\ isProcessingTTS' = FALSE
    /\ UNCHANGED <<uiVars, hostVars, histVars, transcriptions, quotaWait,
                   outputAudioContextRef, nextStartTimeRef, sourcesRef, ttsQueueRef,
                   sub, decoding, timers, clock, calls, started, nextUid, dequeues>>

\* either call rejects: the catch of lines 218-219 and the finally
PlainReject(u) ==
    /\ u \in inflight
    /\ rejects < MaxReject
    /\ rejects' = rejects + 1
    /\ inflight' = inflight \ {u}
    /\ isProcessingTTS' = FALSE
    /\ UNCHANGED <<uiVars, hostVars, transcriptions, quotaWait, outputAudioContextRef,
                   nextStartTimeRef, sourcesRef, ttsQueueRef, sub, decoding, timers,
                   clock, calls, started, nextUid, dequeues, submitted, delivered>>

\* the 'ended' listener of line 213, once the clock has reached the end of the
\* source's playback
PlainEnded(s) ==
    /\ s \in sourcesRef
    /\ \A o \in sourcesRef : EndTime(s) <= EndTime(o)
    /\ clock' = Max(clock, EndTime(s))
    /\ sourcesRef' = sourcesRef \ {s}
    /\ UNCHANGED <<uiVars, hostVars, histVars, transcriptions, isProcessingTTS,
                   quotaWait, outputAudioContextRef, nextStartTimeRef, ttsQueueRef,
                   sub, inflight, decoding, timers, calls, started, nextUid, dequeues>>

\* decodeAudioData resolving (lines 210-216 and the finally) is DecodeDone
NextPlain ==
    \/ \E seg \in IncomingSegments(sub.classId) : PlainDeliver(seg)
    \/ \E u \in inflight : PlainTranslated(u)
    \/ \E u \in inflight, dur \in 1..MaxDur : PlainSynthAudio(u, dur)
    \/ \E u \in inflight : PlainSynthNoAudio(u)
    \/ \E u \in inflight : PlainReject(u)
    \/ \E d \in decoding : DecodeDone(d)
    \/ \E s \in sourcesRef : PlainEnded(s)
    \/ AdvanceClock

SpecPlain == InitReceiver /\ [][NextPlain]_vars

(* ------------------------------- claims ------------------------------- *)
UidsOf(S) == {x.uid : x \in S}

\* a unit of work exists that has not completed: its call is in flight, its retry
\* is pending, its audio is being decoded or its buffer has not ended
Busy == inflight # {} \/ timers # {} \/ decoding # {} \/ sourcesRef # {}

CallTexts == [i \in 1..Len(calls) |-> calls[i].text]

\* C1: at most one translate+synthesize request is in flight at any time.
C1_AtMostOneInFlight == Cardinality(inflight) <= 1

\* C2: when every call has succeeded and no unit of work is left, the calls made
\* are exactly the submitted texts, in the order of submission.
C2_CallsFollowSubmissions ==
    (rejects = 0 /\ ~Busy) => CallTexts = submitted

\* C3: while the retry of a unit that failed on quota is pending, the next call
\* issued is that retry (same unit, same text), and issuing it leaves the
\* PendingQueue as it is.
C3_RetryIsNextCall ==
    [][\A t \in timers :
          calls' # calls =>
              /\ calls' = Append(calls, Unit(t.uid, t.text, t.retry + 1, t.busy))
              /\ t \notin timers'
              /\ ttsQueueRef' = ttsQueueRef]_vars

\* C4: the playback intervals of any two started buffers do not overlap, a buffer
\* playing from max(time passed to start, clock at the start call) for its duration.
C4_NoOverlap ==
    \A s1, s2 \in started :
        s1 # s2 => (EndTime(s1) <= s2.begin \/ EndTime(s2) <= s1.begin)

RECURSIVE FinalTexts(_)
FinalTexts(segs) ==
    IF segs = <<>> THEN <<>>
    ELSE IF Head(segs).isFinal THEN <<Head(segs).text>> \o FinalTexts(Tail(segs))
    ELSE FinalTexts(Tail(segs))

\* C5: the host emits one final segment per turn-complete event, its text the
\* concatenation of the deltas received since the turn-complete before it, in
\* arrival order, and the accumulation buffer holds exactly the deltas of the
\* turn under way (nothing right after a turn-complete).
C5_FinalIsConcatenation ==
    /\ FinalTexts(published) = expectedFinals
    /\ currentChunkRef = turnDeltas

\* a turn of two deltas, "a" then "b", has been completed and published
C5_Witness ==
    /\ expectedFinals # <<>>
    /\ expectedFinals[Len(expectedFinals)] = <<"a", "b">>
    /\ published # <<>>
    /\ published[Len(published)].isFinal
    /\ published[Len(published)].text = <<"a", "b">>
    /\ currentChunkRef = <<>>

\* a step that stops a session: stopBroadcasting on a connected host, leaving
\* RECEIVER mode, or the subscription being torn down
StopStep ==
    \/ status = "CONNECTED" /\ status' = "IDLE" /\ sessions' = sessions
    \/ mode = "RECEIVER" /\ mode' # "RECEIVER"
    \/ sub.on /\ sub' # sub

\* C6: right after a session is stopped the transcript sequence, the PendingQueue
\* and the host's accumulation buffer are empty.
C6_StopClearsState ==
    [][StopStep =>
          /\ transcriptions' = <<>>
          /\ ttsQueueRef' = <<>>
          /\ currentChunkRef' = <<>>]_vars

\* C7: a submit on an idle pipeline issues the call for its text at once and
\* leaves the PendingQueue alone; on a busy pipeline it appends the text to the
\* PendingQueue, issues no call and leaves the calls in flight alone.
C7_SubmitGate ==
    [][submitted' # submitted =>
          LET text == submitted'[Len(submitted')]
          IN IF Busy
             THEN /\ ttsQueueRef' = Append(ttsQueueRef, text)
                  /\ calls' = calls
                  /\ inflight' = inflight
             ELSE /\ ttsQueueRef' = ttsQueueRef
                  /\ Len(calls') = Len(calls) + 1
                  /\ calls'[Len(calls')].text = text
                  /\ calls'[Len(calls')] \in inflight']_vars

\* unit u's call returns in this step and leaves no audio to decode and no retry
EndsWithoutAudio(u) ==
    /\ u \in inflight
    /\ u \notin inflight'
    /\ u.uid \notin UidsOf(decoding')
    /\ u.uid \notin UidsOf(timers')

\* C8: when a unit ends without audio no buffer is scheduled and nextStartTime
\* stays; the oldest PendingQueue entry, if any, is removed and the call for it
\* is the one issued; and no later call is for the unit that ended: a call is
\* for a new unit or is the retry of a unit whose backoff is pending.
C8_NoAudioAdvancesQueue ==
    [][/\ \A u \in inflight :
             EndsWithoutAudio(u) =>
                 /\ started' = started
                 /\ sourcesRef' = sourcesRef
                 /\ decoding' = decoding
                 /\ nextStartTimeRef' = nextStartTimeRef
                 /\ IF ttsQueueRef # <<>>
                    THEN /\ ttsQueueRef' = Tail(ttsQueueRef)
                         /\ Len(calls') = Len(calls) + 1
                         /\ calls'[Len(calls')].text = Head(ttsQueueRef)
                         /\ calls'[Len(calls')].uid # u.uid
                    ELSE /\ ttsQueueRef' = ttsQueueRef
                         /\ calls' = calls
       /\ calls' # calls =>
             LET c == calls'[Len(calls')]
             IN /\ calls' = Append(calls, c)
                /\ IF c.retry = 0
                   THEN c.uid \notin UidsOf({calls[i] : i \in 1..Len(calls)})
                   ELSE \E t \in timers : t.uid = c.uid /\ t.text = c.text]_vars

\* the first unit failed for good while "b" was queued: "b" has been taken off the
\* queue and its call is the one in flight
C8_Witness ==
    /\ dequeues = 1
    /\ rejects = 1
    /\ timers = {}
    /\ started = {}
    /\ decoding = {}
    /\ Len(calls) = 2
    /\ calls[2].text = <<"b">>
    /\ inflight = {calls[2]}
    /\ ttsQueueRef = <<>>

\* C9: while a backoff is pending quotaWait starts at 10, never increases, never
\* goes below 0 and is 0 when the retry is issued.
C9_CountdownDecreases ==
    [][/\ timers # {} => quotaWait' <= quotaWait
       /\ timers' \ timers # {} => quotaWait' = WaitSeconds
       /\ quotaWait' >= 0
       /\ (\E t \in timers : t \notin timers') => quotaWait' = 0]_vars

\* C10: when the streaming session signals an interruption every live source is
\* stopped, the set is emptied and nextStartTime is reset to 0.
C10_InterruptionFlushes ==
    [][(messages' = messages + 1 /\ lastInterrupted') =>
          (sourcesRef' = {} /\ nextStartTimeRef' = 0)]_vars

\* the entries of a transcript sequence with id 'live-seg'
LiveEntries(segs) == {i \in 1..Len(segs) : segs[i].id = LiveSegId}

\* C11: the transcript sequence, written by the host's onmessage and by the
\* receiver's handleIncomingSegment, holds at most one entry with id 'live-seg'.
C11_AtMostOneLive == Cardinality(LiveEntries(transcriptions)) <= 1

\* live segments have arrived from both handlers, one after the other, and one
\* live entry is in the sequence, behind an earlier entry
C11_Witness ==
    /\ delivered >= 1
    /\ messages >= 2
    /\ Len(transcriptions) >= 2
    /\ LiveEntries(transcriptions) = {Len(transcriptions)}

\* a step that applies a final segment to the transcript sequence: the receiver is
\* delivered one, or the host's onmessage handles a turn-complete
AppliesFinal ==
    /\ delivered' # delivered \/ expectedFinals' # expectedFinals
    /\ transcriptions' # <<>>
    /\ transcriptions'[Len(transcriptions')].isFinal

\* C12: applying a final segment removes the 'live-seg' entry and appends the
\* final entry in one step: right afterwards the sequence holds no 'live-seg' entry.
C12_FinalReplacesLive ==
    [][AppliesFinal => LiveEntries(transcriptions') = {}]_vars

\* C13: when a decoded buffer is started it starts at max(nextStartTime before
\* the step, output clock at the start call), and nextStartTime afterwards is
\* that start time plus the buffer's duration.
C13_StartAtWatermark ==
    [][\A s \in started' \ started :
          /\ s.begin = Max(nextStartTimeRef, clock)
          /\ nextStartTimeRef' = s.begin + s.dur]_vars

\* a text with a character that is not white space
NonBlank(text) == \E i \in 1..Len(text) : text[i] # " "

\* C14: handleIncomingSegment submits the segment's text to the pipeline (a call
\* for it or a PendingQueue entry) exactly when the segment is final and its text
\* is not blank; any other segment leaves calls, queue and requests in flight alone.
C14_SubmitsFinalNonBlank ==
    [][delivered' # delivered =>
          LET segment == transcriptions'[Len(transcriptions')]
          IN IF segment.isFinal /\ NonBlank(segment.text)
             THEN /\ submitted' = Append(submitted, segment.text)
                  /\ \/ /\ ttsQueueRef' = Append(ttsQueueRef, segment.text)
                        /\ calls' = calls
                     \/ /\ ttsQueueRef' = ttsQueueRef
                        /\ Len(calls') = Len(calls) + 1
                        /\ calls'[Len(calls')].text = segment.text
             ELSE /\ submitted' = submitted
                  /\ calls' = calls
                  /\ inflight' = inflight
                  /\ ttsQueueRef' = ttsQueueRef]_vars

\* a final segment with blank text, a live segment and a final segment with text
\* have been delivered: one text has been submitted, and one call made
C14_Witness ==
    /\ delivered = 3
    /\ Len(transcriptions) = 3
    /\ \E i \in 1..3 : transcriptions[i].isFinal /\ ~NonBlank(transcriptions[i].text)
    /\ LiveEntries(transcriptions) # {}
    /\ submitted = <<<<"b">>>>
    /\ CallTexts = submitted

\* a step in which onmessage handles a turn-complete with no delta received since
\* the session began or since the turn-complete before
IdleTurnComplete ==
    /\ turnDeltas = <<>>
    /\ expectedFinals' = Append(expectedFinals, <<>>)

\* C15: a turn-complete received while no partial text is accumulated is a no-op:
\* nothing is published and the host's transcript sequence stays as it is.
C15_IdleTurnCompleteNoOp ==
    [][IdleTurnComplete =>
          /\ published' = published
          /\ transcriptions' = transcriptions]_vars

\* a step taken with the receiver session stopped: no subscription before or after
Stopped == ~sub.on /\ ~sub'.on

\* C16: once the receiver session is stopped a backoff that was pending is
\* cancelled: short of a new failure, no retry call is issued and quotaWait is
\* not modified.
C16_StopCancelsBackoff ==
    [][(Stopped /\ timers # {} /\ rejects' = rejects) =>
          /\ quotaWait' = quotaWait
          /\ calls' # calls => calls'[Len(calls')].retry = 0]_vars

\* C17: once the receiver session is stopped no audio buffer is started.
C17_NoPlaybackAfterStop ==
    [][Stopped => started' = started]_vars

\* C18: every segment in a receiver's transcript sequence belongs to the session
\* id the receiver is subscribed to, also after the session id has been changed.
C18_TranscriptOfSubscribedSession ==
    sub.on => \A i \in 1..Len(transcriptions) : transcriptions[i].classId = sub.classId

\* C19: once every published segment has been delivered, once and in order, and
\* the pipeline is at rest, the calls made are the non-blank final texts in order
\* of publication, one call each; and if the last segment published is a final
\* one, the receiver's transcript ends with it, holds it once, and its text is
\* the concatenation of its turn's deltas.
C19_EndToEnd ==
    (delivered = Len(published) /\ ~Busy) =>
        /\ CallTexts = SelectSeq(FinalTexts(published), NonBlank)
        /\ (published # <<>> /\ published[Len(published)].isFinal) =>
               LET final == published[Len(published)]
               IN /\ transcriptions # <<>>
                  /\ transcriptions[Len(transcriptions)] = final
                  /\ Cardinality({i \in 1..Len(transcriptions) :
                                     transcriptions[i].id = final.id}) = 1
                  /\ final.text = expectedFinals[Len(expectedFinals)]

\* q continues p: the entries of p, in their order, then any appended ones
IsPrefix(p, q) == Len(p) <= Len(q) /\ SubSeq(q, 1, Len(p)) = p

\* C20: while a quota backoff is pending no entry is removed from the
\* PendingQueue: its entries keep their order and it only grows at the tail.
C20_QueueKeptDuringBackoff ==
    [][timers # {} => IsPrefix(ttsQueueRef, ttsQueueRef')]_vars

\* C21: in the receiver of src/App.tsx one text is fully processed (translate
\* call, synthesis call, buffer scheduled) before any call for the next is
\* issued, and buffers start in the order of delivery.
C21_OneTextAtATime ==
    /\ Cardinality(UidsOf(inflight) \cup UidsOf(decoding)) <= 1
    /\ \A s1, s2 \in started : s1.uid < s2.uid => s1.begin < s2.begin

\* C22: of two texts that both yield audio, the one submitted first is scheduled
\* with a start time no later than the other's and its playback precedes the
\* other's.  (While no text has gone through the PendingQueue, units are numbered
\* in the order of submission.)
C22_PlaybackInSubmissionOrder ==
    (ttsQueueRef = <<>> /\ dequeues = 0) =>
        \A s1, s2 \in started :
            s1.uid < s2.uid => (s1.when <= s2.when /\ EndTime(s1) <= s2.begin)

\* C23: nextStartTime never decreases, in any step: scheduling, session stop,
\* mode switch or restart.
C23_WatermarkNeverDecreases ==
    [][nextStartTimeRef' >= nextStartTimeRef]_vars

\* two buffers have been scheduled, raising the watermark twice, and the receiver
\* session has since been stopped by a switch to the host role
C23_Witness ==
    /\ Cardinality(started) = 2
    /\ nextStartTimeRef >= 2
    /\ mode = "SOURCE"

\* C24: between tasks sourcesRef is the set of buffers started and not yet
\* ended: a buffer enters it in the step that starts it, leaves it only in a step
\* of its own at or after the end of its playback, and nothing else is ever in it.
C24_LiveSourcesTracked ==
    [][/\ sourcesRef' \subseteq started'
       /\ started' \ started \subseteq sourcesRef'
       /\ sourcesRef' \ sourcesRef \subseteq started' \ started
       /\ Cardinality(sourcesRef \ sourcesRef') <= 1
       /\ \A s \in sourcesRef \ sourcesRef' : clock' >= EndTime(s)]_vars

\* of two buffers started one has ended and the other is still in the set
C24_Witness ==
    /\ Cardinality(started) = 2
    /\ Cardinality(sourcesRef) = 1
    /\ \A s \in started \ sourcesRef : clock >= EndTime(s)

\* a step that is itself a stopBroadcasting: status IDLE, transcript emptied,
\* sessions and publications untouched
StopsAgain ==
    /\ status' = "IDLE"
    /\ transcriptions' = <<>>
    /\ sessions' = sessions
    /\ published' = published

\* C25: between a stopBroadcasting (audioContextRef is null from then on) and the
\* next startBroadcasting (which sets it), no callback of the stopped session and
\* no continuation of a start still connecting changes the status, the
\* transcript sequence or what has been published.
C25_NothingAfterStop ==
    [][(audioContextRef = 0 /\ audioContextRef' = 0 /\ ~StopsAgain) =>
          /\ status' = status
          /\ transcriptions' = transcriptions
          /\ published' = published]_vars

\* C26: no two final segments the host has emitted have the same id.
C26_FinalIdsUnique ==
    \A i, j \in 1..Len(published) :
        (i < j /\ published[i].isFinal /\ published[j].isFinal) =>
            published[i].id # published[j].id

\* the final entries of a transcript sequence, in their order
Finals(segs) == SelectSeq(segs, LAMBDA x : x.isFinal)

\* C27: an incoming segment leaves the final entries of the receiver's transcript
\* as they are (id, text, flag and order): the finals after the delivery are
\* the finals before it, then at most the segment delivered.  (The window of 50
\* entries is never full here, so nothing is evicted.)
C27_FinalsNeverMutated ==
    [][delivered' # delivered =>
          IsPrefix(Finals(transcriptions), Finals(transcriptions'))]_vars

\* a transcript sequence after the setTranscriptions updates of lines 215-218 and
\* 234-237 for the segments of segs, in their order
RECURSIVE ApplySegments(_, _)
ApplySegments(prev, segs) ==
    IF segs = <<>> THEN prev
    ELSE ApplySegments(Append(WithoutLive(prev), Head(segs)), Tail(segs))

\* the segments passed to broadcastTranscription in the step
NewlyPublished == SubSeq(published', Len(published) + 1, Len(published'))

\* the text of the turn after the step is longer: the message carried a delta
StepHasText ==
    LET turn == IF Len(expectedFinals') > Len(expectedFinals)
                THEN expectedFinals'[Len(expectedFinals')] ELSE turnDeltas'
    IN Len(turn) > Len(turnDeltas)

\* C28: a message handled by onmessage emits one live segment if it carries a
\* delta and then one final segment if it completes the turn; the publish calls
\* of the step are exactly these, appended in this order to the calls made so
\* far, and the host's transcript after the step is its transcript before it
\* with each of them applied once in the same order.  No other step publishes.
C28_EmittedOnceInOrder ==
    [][IF messages' # messages
       THEN /\ IsPrefix(published, published')
            /\ Len(NewlyPublished) = (IF StepHasText THEN 1 ELSE 0)
                   + (IF Len(expectedFinals') > Len(expectedFinals) THEN 1 ELSE 0)
            /\ StepHasText => ~NewlyPublished[1].isFinal
            /\ Len(expectedFinals') > Len(expectedFinals)
                  => NewlyPublished[Len(NewlyPublished)].isFinal
            /\ transcriptions' = ApplySegments(transcriptions, NewlyPublished)
       ELSE published' = published]_vars

\* a live segment, a final one and a live one of the next turn have been
\* published, and the transcript shows the final and the live entry
C28_Witness ==
    /\ Len(published) = 3
    /\ ~published[1].isFinal /\ published[2].isFinal /\ ~published[3].isFinal
    /\ transcriptions = <<published[2], published[3]>>

\* the delta carried by the message handled in the step
StepDelta ==
    LET turn == IF Len(expectedFinals') > Len(expectedFinals)
                THEN expectedFinals'[Len(expectedFinals')] ELSE turnDeltas'
    IN SubSeq(turn, Len(turnDeltas) + 1, Len(turn))

\* the text of the live entry of the host's transcript, empty when there is none
LiveText ==
    LET live == SelectSeq(transcriptions, LAMBDA p : p.id = LiveSegId)
    IN IF live = <<>> THEN <<>> ELSE live[1].text

\* C29: the live segment emitted for a delta carries the delta alone when the
\* transcript holds no live entry (the assembler is Idle, as it is after a
\* turn-complete and after a stopBroadcasting), and the text of the live entry
\* followed by the delta otherwise.
C29_LiveTextAppendOnly ==
    [][(messages' # messages /\ StepHasText) =>
          NewlyPublished[1].text = LiveText \o StepDelta]_vars

\* the step is an onclose callback (a session becomes closed) or an onerror
\* callback (status ERROR with every session where it was)
SessionEnds ==
    \/ \E i \in DOMAIN sessions :
          sessions[i].stage # "closed" /\ sessions'[i].stage = "closed"
    \/ status' = "ERROR" /\ sessions' = sessions /\ messages' = messages
          /\ mode' = mode /\ sessions # <<>>

\* C30: after onerror or onclose the host's transcript holds no 'live-seg' entry,
\* the accumulation buffer is empty and the input audio context is released.
C30_EndClearsLive ==
    [][SessionEnds =>
          /\ LiveEntries(transcriptions') = {}
          /\ currentChunkRef' = <<>>
          /\ audioContextRef' = 0]_vars

\* the step is the catch of lines 265-268: a start ends in failure
StartFails ==
    \E i \in DOMAIN sessions :
        sessions[i].stage # "failed" /\ sessions'[i].stage = "failed"

\* C31: when getUserMedia or the connect of startBroadcasting fails, the start
\* returns with no input audio context held (audioContextRef is null) and with
\* a status that is neither CONNECTED nor CONNECTING.
C31_FailedStartLeavesNothing ==
    [][StartFails =>
          /\ audioContextRef' = 0
          /\ status' \notin {"CONNECTED", "CONNECTING"}]_vars

\* C32: no submitted text is stranded: whenever no synthesis call is in flight,
\* no audio is being decoded, no backoff timer is pending and no buffer is
\* playing, the PendingQueue is empty (a text left in it then would never get
\* its synthesis call, since only a completing unit runs checkQueue).
C32_NothingStranded == ~Busy => ttsQueueRef = <<>>

\* C33: the isProcessingTTS a submit reads at line 294 tells the state of the
\* pipeline: it is true exactly when a unit of work is unfinished (its call in
\* flight, its backoff pending, or its audio decoding or playing so that its
\* completion has not yet run checkQueue), and false exactly when there is none.
C33_BusyFlagIsTrue ==
    [][submitted' # submitted => (sub.busy <=> Busy)]_vars

\* a delivery leaves the last WindowSize entries of the transcript before it,
\* less the entries the segment replaces, followed by the segment
WindowAfterDelivery ==
    [][delivered' # delivered =>
          LET segment == transcriptions'[Len(transcriptions')]
              kept == SelectSeq(transcriptions,
                                LAMBDA s : s.id # segment.id
                                           /\ (segment.isFinal \/ s.id # LiveSegId))
              all == Append(kept, segment)
          IN /\ Len(transcriptions') <= WindowSize
             /\ Len(transcriptions') = IF Len(all) <= WindowSize THEN Len(all) ELSE WindowSize
             /\ \A k \in 1..Len(transcriptions') :
                   transcriptions'[k] = all[Len(all) - Len(transcriptions') + k]]_vars

\* C34: the receiver's transcript sequence never holds more than 50 entries.
C34_AtMostFifty == mode = "RECEIVER" => Len(transcriptions) <= WindowSize

\* a streaming session begun by the latest startBroadcasting is open
LatestSessionOpen == sessions # <<>> /\ sessions[Len(sessions)].stage = "open"

\* C35: status is CONNECTED only while the input audio context is open
\* (audioContextRef non-null) and the streaming session of the latest
\* startBroadcasting is open; so no stop or mode switch is followed by CONNECTED
\* without a new start.
C35_ConnectedMeansLive ==
    status = "CONNECTED" => (audioContextRef # 0 /\ LatestSessionOpen)

====
